---- MODULE Spec2Model ----
(***************************************************************************)
(* Model of the two icon generator scripts of VersionPlanExtension:        *)
(*   Generator A  src/assets/create-icon.py   (128x128 "CC" icon, with a   *)
(*                placeholder fallback under `except ImportError`)         *)
(*   Generator B  src/create_png_icon.py      (24x24 "C" icon, no          *)
(*                fallback)                                                *)
(* A run is a sequence of statements; each statement is one action.  The   *)
(* environment (is the imaging library importable, which library calls     *)
(* raise and with which exception kind, what the text measures) is an      *)
(* input that is fixed for a behaviour and drawn from a bounded set.       *)
(***************************************************************************)
EXTENDS Integers, Sequences, FiniteSets

VARIABLES env, fs, fs0, dirB, dirB0, gen, pc, imported, img, font, tried, bbox, pos,
          raised, out, written, exit, runs, first

vars == <<env, fs, fs0, dirB, dirB0, gen, pc, imported, img, font, tried, bbox, pos,
          raised, out, written, exit, runs, first>>

----------------------------------------------------------------------------
(* Bounds of the model *)

\* number of script invocations in one behaviour
MaxRuns == 2
\* largest left/top offset of a measured text bounding box
MaxOff == 3
\* width of a small measured text (the built-in bitmap font)
SmallText == 12
\* by how much a measured text may exceed the canvas
MaxOver == 2

----------------------------------------------------------------------------
(* Program constants *)

\* create-icon.py:12  size = (128, 128)
sizeA == <<128, 128>>
\* create-icon.py:13  background_color = (30, 30, 30)
background_color == <<30, 30, 30>>
\* create-icon.py:14  text_color = (255, 255, 255)
text_color == <<255, 255, 255>>
\* create-icon.py:41  outline=(60, 60, 60)
border_color == <<60, 60, 60>>
\* create-icon.py:41  width=2
border_width == 2
\* create_png_icon.py:5  size = 24
sizeB == 24
\* create_png_icon.py:6  (0, 0, 0, 0)
transparent == <<0, 0, 0, 0>>
\* create_png_icon.py:11  fill=(0, 122, 204), width=3, box [4, 4, 20, 20]
arc_color == <<0, 122, 204>>
arc_width == 3
arc_box == <<4, 4, 20, 20>>
\* create_png_icon.py:14  box [17, 5, 21, 9], fill=(255, 107, 53)
dot_color == <<255, 107, 53>>
dot_box == <<17, 5, 21, 9>>

\* create-icon.py:45  os.path.join(script_dir, 'icon.png')
icon_path == "script_dir/icon.png"
\* create-icon.py:55  os.path.join(script_dir, 'icon-placeholder.txt')
placeholder_path == "script_dir/icon-placeholder.txt"
\* create_png_icon.py:17  the fixed absolute target path
target_path == "/Users/pedroazevedo/workspace/claude-projects/VersionPlanExtension/assets/claude-icon.png"

Files == {icon_path, placeholder_path, target_path}
OutputsOf(g) == IF g = "A" THEN {icon_path, placeholder_path} ELSE {target_path}

----------------------------------------------------------------------------
(* Values *)

Absent == [kind |-> "absent"]
\* a file left by something other than the runs of this behaviour
Stale == [kind |-> "stale"]
\* a file that a failed write created or truncated
Partial == [kind |-> "partial"]
NoImg == [mode |-> "none"]
NoBBox == <<>>
NoPos == <<>>
NoPath == "-"
NoRaise == [step |-> "none", kind |-> "none"]
NoRun == [seen |-> FALSE]

Kinds == {"ImportError", "OSError"}
Outcomes == {"ok"} \cup Kinds

\* create-icon.py:58-60, the three lines written, as whitespace/punctuation tokens
placeholder_lines ==
    << <<"Icon", "placeholder", "-", "Create", "a", "128x128", "PNG", "icon",
         "with", "'CC'", "text", "on", "dark", "background">>,
       <<"Suggested", "colors", ":", "Background", "#1e1e1e", ",", "Text",
         "#ffffff">>,
       <<"Use", "any", "image", "editor", "to", "create", "icon.png", "in",
         "this", "directory">> >>

ContainsString(content, s) ==
    /\ content.kind = "text"
    /\ \E i \in 1..Len(content.lines) :
         \E j \in 1..Len(content.lines[i]) : content.lines[i][j] = s

----------------------------------------------------------------------------
(* The canvas: a background and the drawing calls applied to it, in order. *)
(* A pixel has the colour of the last call that covers it.                 *)

\* ImageDraw ink: a 3-tuple drawn on an RGBA image is opaque
Ink(mode, color) ==
    IF mode = "RGBA" /\ Len(color) = 3 THEN color \o <<255>> ELSE color

\* Image.new(mode, size, color)
NewImage(mode, w, h, color) ==
    [mode |-> mode, w |-> w, h |-> h, bg |-> color, ops |-> <<>>]

Abs(n) == IF n < 0 THEN -n ELSE n

\* draw.text: the ink of the text drawn at (x, y) lies in the measured box
\* moved by (x, y); right and bottom are exclusive
CoversText(op, x, y) ==
    /\ op.box[1] <= x /\ x < op.box[3]
    /\ op.box[2] <= y /\ y < op.box[4]

\* draw.rectangle(outline, width): the outline grows inwards from the box
CoversRect(op, x, y) ==
    /\ op.box[1] <= x /\ x <= op.box[3]
    /\ op.box[2] <= y /\ y <= op.box[4]
    /\ \/ x - op.box[1] < op.width
       \/ op.box[3] - x < op.width
       \/ y - op.box[2] < op.width
       \/ op.box[4] - y < op.width

\* draw.arc(box, 45, 315, width): a ring inside the box, open to the right
\* between -45 and +45 degrees (angles run clockwise from 3 o'clock)
CoversArc(op, x, y) ==
    LET cx == (op.box[1] + op.box[3]) \div 2
        cy == (op.box[2] + op.box[4]) \div 2
        ro == (op.box[3] - op.box[1]) \div 2
        ri == ro - op.width
        dx == x - cx
        dy == y - cy
        d2 == dx * dx + dy * dy
    IN  /\ d2 <= ro * ro
        /\ d2 >= ri * ri
        /\ ~(dx > 0 /\ Abs(dy) < dx)

\* draw.ellipse(box, fill): the filled disc inscribed in the box
CoversEllipse(op, x, y) ==
    LET cx == (op.box[1] + op.box[3]) \div 2
        cy == (op.box[2] + op.box[4]) \div 2
        r  == (op.box[3] - op.box[1]) \div 2
        dx == x - cx
        dy == y - cy
    IN  dx * dx + dy * dy <= r * r

Covers(op, x, y) ==
    CASE op.kind = "text"    -> CoversText(op, x, y)
      [] op.kind = "rect"    -> CoversRect(op, x, y)
      [] op.kind = "arc"     -> CoversArc(op, x, y)
      [] op.kind = "ellipse" -> CoversEllipse(op, x, y)

DrawOp(im, op) == [im EXCEPT !.ops = Append(@, op)]

SetMax(S) == CHOOSE m \in S : \A n \in S : n <= m

\* img.getpixel((x, y))
PixelAt(im, x, y) ==
    LET hit == {i \in 1..Len(im.ops) : Covers(im.ops[i], x, y)}
    IN  IF hit = {} THEN im.bg ELSE im.ops[SetMax(hit)].color

----------------------------------------------------------------------------
(* The environment of a behaviour *)

\* the statements of the try body (and of Generator B) that call into the
\* library or the file system and may raise; "save_pre" raises before the
\* output file is opened, "save_mid" after it was created or truncated
FailSteps == {"new", "textbbox", "text", "rectangle", "arc", "ellipse",
              "save_pre", "save_mid"}
Fails == {NoRaise} \cup [step : FailSteps, kind : Kinds]

\* what draw.textbbox((0, 0), "CC", font) may return: (left, top, right, bottom)
BBoxes == {<<o, o, o + d, o + d - 1>> :
              o \in {0, MaxOff}, d \in {SmallText, sizeA[1] + MaxOver}}
DefaultBBox == <<0, 0, SmallText, SmallText - 1>>
AllOk == <<"ok", "ok", "ok">>

\* the handler of Generator A is entered in this environment
ReachesHandler(e) ==
    \/ ~e.lib
    \/ e.fail.kind = "ImportError"
    \/ e.fonts[1] # "ok" /\ e.fonts[2] # "ok" /\ e.fonts[3] = "ImportError"

\* one representative per environment: what no run can observe is fixed
Normal(e) ==
    /\ ~e.lib => e.fonts = AllOk /\ e.fail = NoRaise /\ e.bbox = DefaultBBox
    /\ e.fonts[1] = "ok" => e.fonts[2] = "ok"
    /\ e.fonts[2] = "ok" => e.fonts[3] = "ok"
    /\ e.fonts[3] # "ok" => e.fail = NoRaise /\ e.bbox = DefaultBBox
    /\ e.fail.step = "new" => e.fonts = AllOk /\ e.bbox = DefaultBBox
    /\ e.fail.step = "textbbox" => e.bbox = DefaultBBox
    /\ ~ReachesHandler(e) => e.ph = "ok"

Envs == {e \in [lib : BOOLEAN,
                fonts : Outcomes \X Outcomes \X Outcomes,
                fail : Fails,
                bbox : BBoxes,
                ph : {"ok", "open", "write"}] : Normal(e)}

FailsAt(step) == env.fail.step = step

----------------------------------------------------------------------------
(* Initial state: no run yet; any environment; the output files of earlier *)
(* invocations may or may not be there.                                    *)

Init ==
    /\ env \in Envs
    /\ fs \in {[f \in Files |-> Absent], [f \in Files |-> Stale]}
    /\ dirB \in BOOLEAN
    /\ fs[target_path] # Absent => dirB
    /\ fs0 = fs
    /\ dirB0 = dirB
    /\ gen = "none"
    /\ pc = "idle"
    /\ imported = "pending"
    /\ img = NoImg
    /\ font = "none"
    /\ tried = <<>>
    /\ bbox = NoBBox
    /\ pos = NoPos
    /\ raised = NoRaise
    /\ out = <<>>
    /\ written = {}
    /\ exit = "none"
    /\ runs = 0
    /\ first = [g \in {"A", "B"} |-> NoRun]

\* a new interpreter process: nothing is kept from the run before
Start(g, entry) ==
    /\ pc = "idle"
    /\ runs < MaxRuns
    /\ runs' = runs + 1
    /\ gen' = g
    /\ pc' = entry
    /\ fs0' = fs
    /\ dirB0' = dirB
    /\ imported' = "pending"
    /\ img' = NoImg
    /\ font' = "none"
    /\ tried' = <<>>
    /\ bbox' = NoBBox
    /\ pos' = NoPos
    /\ raised' = NoRaise
    /\ out' = <<>>
    /\ written' = {}
    /\ exit' = "none"
    /\ UNCHANGED <<env, fs, dirB, first>>

\* the interpreter exits; what the run left is what the next run finds
Present(g) == {f \in OutputsOf(g) : fs[f] # Absent}
Finish ==
    /\ pc = "done"
    /\ pc' = "idle"
    /\ first' = IF first[gen].seen THEN first
                ELSE [first EXCEPT ![gen] =
                        [seen |-> TRUE, exit |-> exit, out |-> out,
                         written |-> written, present |-> Present(gen),
                         content |-> [f \in OutputsOf(gen) |-> fs[f]]]]
    /\ UNCHANGED <<env, fs, fs0, dirB0, dirB, gen, imported, img, font, tried, bbox,
                   pos, raised, out, written, exit, runs>>

----------------------------------------------------------------------------
(* Generator A: src/assets/create-icon.py *)

StartA == Start("A", "A_import")

\* variant: the try statement has no except clause, every exception is a fault
A_Raise_NoHandler(step, kind) ==
    /\ raised' = [step |-> step, kind |-> kind]
    /\ pc' = "done"
    /\ exit' = "fault"

\* an exception of the given kind leaves the try body at the given step:
\* `except ImportError` takes it, anything else ends the run with a fault
A_Raise(step, kind) ==
    /\ raised' = [step |-> step, kind |-> kind]
    /\ IF kind = "ImportError"
         THEN pc' = "A_h_notice" /\ exit' = exit
         ELSE pc' = "done" /\ exit' = "fault"

\* lines 7-9: from PIL import Image, ImageDraw, ImageFont
A_Import ==
    /\ pc = "A_import"
    /\ IF env.lib
         THEN /\ imported' = "ok"
              /\ pc' = "A_new"
              /\ UNCHANGED <<raised, exit>>
         ELSE /\ imported' = "failed"
              /\ A_Raise("import", "ImportError")
    /\ UNCHANGED <<env, fs, fs0, dirB0, dirB, gen, img, font, tried, bbox, pos, out,
                   written, runs, first>>

\* lines 11-18: img = Image.new('RGB', size, background_color); Draw(img)
A_NewCanvas ==
    /\ pc = "A_new"
    /\ IF FailsAt("new")
         THEN A_Raise("new", env.fail.kind) /\ img' = img
         ELSE /\ img' = NewImage("RGB", sizeA[1], sizeA[2], background_color)
              /\ pc' = "A_font1"
              /\ UNCHANGED <<raised, exit>>
    /\ UNCHANGED <<env, fs, fs0, dirB0, dirB, gen, imported, font, tried, bbox, pos,
                   out, written, runs, first>>

\* lines 21-23: try: font = ImageFont.truetype("Arial.ttf", 60) except:
A_Font1 ==
    /\ pc = "A_font1"
    /\ tried' = Append(tried, "primary")
    /\ IF env.fonts[1] = "ok"
         THEN font' = "primary" /\ pc' = "A_textbbox"
         ELSE font' = font /\ pc' = "A_font2"
    /\ UNCHANGED <<env, fs, fs0, dirB0, dirB, gen, imported, img, bbox, pos, raised,
                   out, written, exit, runs, first>>

\* variant: the inner except names OSError, so an ImportError of the
\* secondary attempt leaves the font chain
A_Font2_Narrow ==
    /\ pc = "A_font2"
    /\ tried' = Append(tried, "secondary")
    /\ IF env.fonts[2] = "ok"
         THEN font' = "secondary" /\ pc' = "A_textbbox"
              /\ UNCHANGED <<raised, exit>>
         ELSE IF env.fonts[2] = "OSError"
         THEN font' = font /\ pc' = "A_font3"
              /\ UNCHANGED <<raised, exit>>
         ELSE font' = font /\ A_Raise("font2", env.fonts[2])
    /\ UNCHANGED <<env, fs, fs0, dirB0, dirB, gen, imported, img, bbox, pos,
                   out, written, runs, first>>

\* lines 24-26: try: font = ImageFont.truetype("/System/...", 60) except:
A_Font2 ==
    /\ pc = "A_font2"
    /\ tried' = Append(tried, "secondary")
    /\ IF env.fonts[2] = "ok"
         THEN font' = "secondary" /\ pc' = "A_textbbox"
         ELSE font' = font /\ pc' = "A_font3"
    /\ UNCHANGED <<env, fs, fs0, dirB0, dirB, gen, imported, img, bbox, pos, raised,
                   out, written, exit, runs, first>>

\* line 27: font = ImageFont.load_default()   (inside no inner try)
A_Font3 ==
    /\ pc = "A_font3"
    /\ tried' = Append(tried, "default")
    /\ IF env.fonts[3] = "ok"
         THEN /\ font' = "default"
              /\ pc' = "A_textbbox"
              /\ UNCHANGED <<raised, exit>>
         ELSE /\ font' = font
              /\ A_Raise("load_default", env.fonts[3])
    /\ UNCHANGED <<env, fs, fs0, dirB0, dirB, gen, imported, img, bbox, pos, out,
                   written, runs, first>>

\* lines 32-36: the draw position computed from the bounding box
TextOrigin(bb, size) ==
    LET text_width  == bb[3] - bb[1]
        text_height == bb[4] - bb[2]
    IN  <<(size[1] - text_width) \div 2, (size[2] - text_height) \div 2>>

\* lines 29-36: bbox = draw.textbbox((0, 0), text, font=font); x = ...; y = ...
A_TextBBox ==
    /\ pc = "A_textbbox"
    /\ IF FailsAt("textbbox")
         THEN A_Raise("textbbox", env.fail.kind) /\ UNCHANGED <<bbox, pos>>
         ELSE /\ bbox' = env.bbox
              /\ pos' = TextOrigin(env.bbox, sizeA)
              /\ pc' = "A_text"
              /\ UNCHANGED <<raised, exit>>
    /\ UNCHANGED <<env, fs, fs0, dirB0, dirB, gen, imported, img, font, tried, out,
                   written, runs, first>>

\* where the ink of a text measured as bb lands when drawn at xy
InkBox(xy, bb) == <<xy[1] + bb[1], xy[2] + bb[2], xy[1] + bb[3], xy[2] + bb[4]>>

TextOp == [kind |-> "text", box |-> InkBox(pos, bbox),
           color |-> Ink(img.mode, text_color), font |-> font]
BorderOp == [kind |-> "rect", box |-> <<0, 0, sizeA[1] - 1, sizeA[2] - 1>>,
             color |-> Ink(img.mode, border_color), width |-> border_width]

\* variant: the border is drawn before the text
A_DrawCalls_BorderFirst == <<BorderOp, TextOp>>

\* lines 38-41: the two drawing calls, in program order
A_DrawCalls == <<TextOp, BorderOp>>

\* line 38: draw.text((x, y), text, fill=text_color, font=font)
A_DrawText ==
    /\ pc = "A_text"
    /\ IF FailsAt("text")
         THEN A_Raise("text", env.fail.kind) /\ img' = img
         ELSE /\ img' = DrawOp(img, A_DrawCalls[1])
              /\ pc' = "A_rectangle"
              /\ UNCHANGED <<raised, exit>>
    /\ UNCHANGED <<env, fs, fs0, dirB0, dirB, gen, imported, font, tried, bbox, pos,
                   out, written, runs, first>>

\* line 41: draw.rectangle([0, 0, size[0]-1, size[1]-1], outline=..., width=2)
A_Rectangle ==
    /\ pc = "A_rectangle"
    /\ IF FailsAt("rectangle")
         THEN A_Raise("rectangle", env.fail.kind) /\ img' = img
         ELSE /\ img' = DrawOp(img, A_DrawCalls[2])
              /\ pc' = "A_save"
              /\ UNCHANGED <<raised, exit>>
    /\ UNCHANGED <<env, fs, fs0, dirB0, dirB, gen, imported, font, tried, bbox, pos,
                   out, written, runs, first>>

PngOf(im) == [kind |-> "png", image |-> im]

\* variant: an icon.png that is already there is kept, not overwritten
A_Save_KeepExisting ==
    /\ pc = "A_save"
    /\ IF fs[icon_path] # Absent
         THEN /\ pc' = "A_print"
              /\ UNCHANGED <<fs, written, raised, exit>>
         ELSE /\ fs' = [fs EXCEPT ![icon_path] = PngOf(img)]
              /\ written' = written \cup {icon_path}
              /\ pc' = "A_print"
              /\ UNCHANGED <<raised, exit>>
    /\ UNCHANGED <<env, fs0, dirB0, dirB, gen, imported, img, font, tried,
                   bbox, pos, out, runs, first>>

\* lines 43-46: img.save(icon_path)
A_Save ==
    /\ pc = "A_save"
    /\ IF FailsAt("save_pre")
         THEN A_Raise("save", env.fail.kind) /\ UNCHANGED <<fs, written>>
         ELSE IF FailsAt("save_mid")
         THEN /\ A_Raise("save", env.fail.kind)
              /\ fs' = [fs EXCEPT ![icon_path] = Partial]
              /\ written' = written
         ELSE /\ fs' = [fs EXCEPT ![icon_path] = PngOf(img)]
              /\ written' = written \cup {icon_path}
              /\ pc' = "A_print"
              /\ UNCHANGED <<raised, exit>>
    /\ UNCHANGED <<env, fs0, dirB0, dirB, gen, imported, img, font, tried, bbox, pos,
                   out, runs, first>>

Line(text, path) == [text |-> text, path |-> path]

\* line 48: print(f"Icon created successfully at: {icon_path}")
A_Print ==
    /\ pc = "A_print"
    /\ out' = Append(out, Line("Icon created successfully at:", icon_path))
    /\ pc' = "done"
    /\ exit' = "ok"
    /\ UNCHANGED <<env, fs, fs0, dirB0, dirB, gen, imported, img, font, tried, bbox,
                   pos, raised, written, runs, first>>

\* variant: the handler announces the placeholder path before writing it
A_HandlerNotice_NamesPath ==
    /\ pc = "A_h_notice"
    /\ out' = Append(out, Line("Placeholder created at:", placeholder_path))
    /\ pc' = "A_h_write"
    /\ UNCHANGED <<env, fs, fs0, dirB0, dirB, gen, imported, img, font, tried,
                   bbox, pos, raised, written, exit, runs, first>>

\* lines 50-52: except ImportError: print("PIL (Pillow) not available. ...")
A_HandlerNotice ==
    /\ pc = "A_h_notice"
    /\ out' = Append(out, Line("PIL (Pillow) not available. Creating a simple text placeholder.", NoPath))
    /\ pc' = "A_h_write"
    /\ UNCHANGED <<env, fs, fs0, dirB0, dirB, gen, imported, img, font, tried, bbox,
                   pos, raised, written, exit, runs, first>>

TextFile(lines) == [kind |-> "text", lines |-> lines]

\* lines 54-60: with open(placeholder_path, 'w') as f: f.write(...) x 3
A_HandlerWrite ==
    /\ pc = "A_h_write"
    /\ IF env.ph = "open"
         THEN /\ pc' = "done" /\ exit' = "fault"
              /\ UNCHANGED <<fs, written>>
         ELSE IF env.ph = "write"
         THEN /\ pc' = "done" /\ exit' = "fault"
              /\ fs' = [fs EXCEPT ![placeholder_path] = Partial]
              /\ written' = written
         ELSE /\ fs' = [fs EXCEPT ![placeholder_path] = TextFile(placeholder_lines)]
              /\ written' = written \cup {placeholder_path}
              /\ pc' = "A_h_created"
              /\ exit' = exit
    /\ UNCHANGED <<env, fs0, dirB0, dirB, gen, imported, img, font, tried, bbox, pos,
                   raised, out, runs, first>>

\* line 62: print(f"Placeholder created at: {placeholder_path}")
A_HandlerCreated ==
    /\ pc = "A_h_created"
    /\ out' = Append(out, Line("Placeholder created at:", placeholder_path))
    /\ pc' = "A_h_please"
    /\ UNCHANGED <<env, fs, fs0, dirB0, dirB, gen, imported, img, font, tried, bbox,
                   pos, raised, written, exit, runs, first>>

\* line 63: print("Please create icon.png manually using an image editor.")
A_HandlerPlease ==
    /\ pc = "A_h_please"
    /\ out' = Append(out, Line("Please create icon.png manually using an image editor.", NoPath))
    /\ pc' = "done"
    /\ exit' = "ok"
    /\ UNCHANGED <<env, fs, fs0, dirB0, dirB, gen, imported, img, font, tried, bbox,
                   pos, raised, written, runs, first>>

----------------------------------------------------------------------------
(* Generator B: src/create_png_icon.py *)

StartB == Start("B", "B_import")

\* no try statement anywhere: every exception ends the run with a fault
B_Raise(step, kind) ==
    /\ raised' = [step |-> step, kind |-> kind]
    /\ pc' = "done"
    /\ exit' = "fault"

\* lines 1-2: from PIL import Image, ImageDraw, ImageFont
B_Import ==
    /\ pc = "B_import"
    /\ IF env.lib
         THEN /\ imported' = "ok"
              /\ pc' = "B_new"
              /\ UNCHANGED <<raised, exit>>
         ELSE /\ imported' = "failed"
              /\ B_Raise("import", "ImportError")
    /\ UNCHANGED <<env, fs, fs0, dirB0, dirB, gen, img, font, tried, bbox, pos, out,
                   written, runs, first>>

\* line 6: the colour the canvas is created with
B_InitialColor == transparent

\* lines 5-7: img = Image.new('RGBA', (size, size), (0, 0, 0, 0)); Draw(img)
B_NewCanvas ==
    /\ pc = "B_new"
    /\ IF FailsAt("new")
         THEN B_Raise("new", env.fail.kind) /\ img' = img
         ELSE /\ img' = NewImage("RGBA", sizeB, sizeB, B_InitialColor)
              /\ pc' = "B_arc"
              /\ UNCHANGED <<raised, exit>>
    /\ UNCHANGED <<env, fs, fs0, dirB0, dirB, gen, imported, font, tried, bbox, pos,
                   out, written, runs, first>>

ArcOp == [kind |-> "arc", box |-> arc_box, color |-> Ink(img.mode, arc_color),
          width |-> arc_width]
DotOp == [kind |-> "ellipse", box |-> dot_box,
          color |-> Ink(img.mode, dot_color)]

\* variant: the dot is drawn before the arc
B_DrawCalls_DotFirst == <<DotOp, ArcOp>>

\* lines 11-14: the two drawing calls, in program order
B_DrawCalls == <<ArcOp, DotOp>>

\* line 11: draw.arc([4, 4, 20, 20], start=45, end=315, fill=..., width=3)
B_Arc ==
    /\ pc = "B_arc"
    /\ IF FailsAt("arc")
         THEN B_Raise("arc", env.fail.kind) /\ img' = img
         ELSE /\ img' = DrawOp(img, B_DrawCalls[1])
              /\ pc' = "B_ellipse"
              /\ UNCHANGED <<raised, exit>>
    /\ UNCHANGED <<env, fs, fs0, dirB0, dirB, gen, imported, font, tried, bbox, pos,
                   out, written, runs, first>>

\* line 14: draw.ellipse([17, 5, 21, 9], fill=(255, 107, 53))
B_Ellipse ==
    /\ pc = "B_ellipse"
    /\ IF FailsAt("ellipse")
         THEN B_Raise("ellipse", env.fail.kind) /\ img' = img
         ELSE /\ img' = DrawOp(img, B_DrawCalls[2])
              /\ pc' = "B_save"
              /\ UNCHANGED <<raised, exit>>
    /\ UNCHANGED <<env, fs, fs0, dirB0, dirB, gen, imported, font, tried, bbox, pos,
                   out, written, runs, first>>

\* variant: os.makedirs(..., exist_ok=True) before the save
B_MakesDir_Yes == TRUE

\* line 17: whether the script makes the output directory before saving
B_MakesDir == FALSE

\* line 17: img.save('/Users/.../assets/claude-icon.png')
\* open() of a path whose directory is missing raises FileNotFoundError
B_Save ==
    /\ pc = "B_save"
    /\ dirB' = (dirB \/ B_MakesDir)
    /\ IF ~dirB'
         THEN B_Raise("save", "OSError") /\ UNCHANGED <<fs, written>>
         ELSE IF FailsAt("save_pre")
         THEN B_Raise("save", env.fail.kind) /\ UNCHANGED <<fs, written>>
         ELSE IF FailsAt("save_mid")
         THEN /\ B_Raise("save", env.fail.kind)
              /\ fs' = [fs EXCEPT ![target_path] = Partial]
              /\ written' = written
         ELSE /\ fs' = [fs EXCEPT ![target_path] = PngOf(img)]
              /\ written' = written \cup {target_path}
              /\ pc' = "B_print"
              /\ UNCHANGED <<raised, exit>>
    /\ UNCHANGED <<env, fs0, dirB0, gen, imported, img, font, tried, bbox, pos, out,
                   runs, first>>

\* line 18: print("PNG icon created successfully!")
B_Print ==
    /\ pc = "B_print"
    /\ out' = Append(out, Line("PNG icon created successfully!", NoPath))
    /\ pc' = "done"
    /\ exit' = "ok"
    /\ UNCHANGED <<env, fs, fs0, dirB0, dirB, gen, imported, img, font, tried, bbox,
                   pos, raised, written, runs, first>>

----------------------------------------------------------------------------

Next ==
    \/ StartA \/ A_Import \/ A_NewCanvas \/ A_Font1 \/ A_Font2 \/ A_Font3
    \/ A_TextBBox \/ A_DrawText \/ A_Rectangle \/ A_Save \/ A_Print
    \/ A_HandlerNotice \/ A_HandlerWrite \/ A_HandlerCreated \/ A_HandlerPlease
    \/ StartB \/ B_Import \/ B_NewCanvas \/ B_Arc \/ B_Ellipse \/ B_Save
    \/ B_Print
    \/ Finish

Spec == Init /\ [][Next]_vars

----------------------------------------------------------------------------
(* Vocabulary of the properties *)

\* the run of the current invocation is over
Ended == gen # "none" /\ pc \in {"done", "idle"}
EndedOk == Ended /\ exit = "ok"
HandlerPcs == {"A_h_notice", "A_h_write", "A_h_created", "A_h_please"}
\* the except ImportError branch of Generator A was taken
FellBack ==
    /\ gen = "A"
    /\ \/ pc \in HandlerPcs
       \/ Len(out) > 0 /\ out[1].path = NoPath
\* the output lines that carry a file path
PathLines == {i \in 1..Len(out) : out[i].path # NoPath}
\* a statement of the script raised an exception that no inner try caught
LaterFailure == imported = "ok" /\ raised # NoRaise
IsPng(f, w, h) ==
    /\ fs[f].kind = "png"
    /\ fs[f].image.w = w
    /\ fs[f].image.h = h

----------------------------------------------------------------------------
(* C1 *)

\* C1: Generator A, imaging library imported: every run that finishes
\* without a fault has written icon.png from a 128x128 canvas and has not
\* written icon-placeholder.txt; icon.png is the one file written.
C1_PngWhenLibraryPresent ==
    (gen = "A" /\ imported = "ok" /\ EndedOk) =>
        /\ written = {icon_path}
        /\ IsPng(icon_path, 128, 128)
        /\ placeholder_path \notin written
        /\ fs[placeholder_path] = fs0[placeholder_path]

----------------------------------------------------------------------------
(* C2 *)

\* C2: Generator A, the import fails: no drawing step is performed and no
\* icon.png is written; the import failure itself never ends the run with a
\* fault; and unless writing the placeholder itself raises, the run ends
\* with exit status 0 having written icon-placeholder.txt, which contains
\* "128x128", "#1e1e1e" and "#ffffff".
C2_FallbackWhenLibraryMissing ==
    (gen = "A" /\ imported = "failed") =>
        /\ img = NoImg /\ font = "none" /\ tried = <<>>
        /\ bbox = NoBBox /\ pos = NoPos
        /\ icon_path \notin written
        /\ fs[icon_path] = fs0[icon_path]
        /\ FellBack
        /\ exit = "fault" => env.ph # "ok"
        /\ (Ended /\ env.ph = "ok") =>
              /\ exit = "ok"
              /\ written = {placeholder_path}
              /\ ContainsString(fs[placeholder_path], "128x128")
              /\ ContainsString(fs[placeholder_path], "#1e1e1e")
              /\ ContainsString(fs[placeholder_path], "#ffffff")

C2_Witness ==
    /\ gen = "A" /\ imported = "failed" /\ pc = "done" /\ exit = "ok"
    /\ fs0[icon_path] = Absent
    /\ ContainsString(fs[placeholder_path], "128x128")

----------------------------------------------------------------------------
(* C3 *)

\* C3: Generator A takes the placeholder fallback if and only if the
\* imaging library could not be imported; any exception that leaves a
\* statement after a successful import ends the run with a fault, with no
\* placeholder written and no success message printed.
C3_OnlyImportFailureFallsBack ==
    gen = "A" =>
        /\ FellBack <=> imported = "failed"
        /\ (LaterFailure /\ Ended) =>
              /\ exit = "fault"
              /\ placeholder_path \notin written
              /\ PathLines = {}

----------------------------------------------------------------------------
(* C4 *)

\* C4 (as stated): on every run of Generator A that ends with exit status 0
\* the total output is exactly one line, which names the one file the run
\* wrote.
C4_OneLineOfOutput ==
    (gen = "A" /\ EndedOk) =>
        /\ Len(out) = 1
        /\ written = {out[1].path}

\* C4 (amended): a line that names a file path is printed only once the
\* write of that file has completed; on every run that ends with exit
\* status 0 exactly one output line names a file path, the path of the one
\* file the run wrote.  That line is the whole output on the image path; on
\* the fallback path the output is three lines: a notice printed before
\* the write, the line naming the placeholder, and a closing instruction.
C4_OnePathLineAfterWrite ==
    gen = "A" =>
        /\ \A i \in PathLines :
              /\ out[i].path \in written
              /\ fs[out[i].path].kind \in {"png", "text"}
        /\ EndedOk =>
              /\ Cardinality(PathLines) = 1
              /\ \A i \in PathLines : written = {out[i].path}
              /\ IF FellBack
                   THEN /\ Len(out) = 3
                        /\ PathLines = {2}
                        /\ out[2].path = placeholder_path
                   ELSE /\ Len(out) = 1
                        /\ out[1].path = icon_path

C4_Witness ==
    /\ gen = "A" /\ pc = "done" /\ exit = "ok"
    /\ FellBack
    /\ Len(out) = 3
    /\ out[2].path = placeholder_path
    /\ placeholder_path \in written

----------------------------------------------------------------------------
(* C5 *)

\* the outer 2-pixel frame of a w x h canvas
Frame(w, h) ==
    {p \in (0..w - 1) \X (0..h - 1) :
        \/ p[1] \in {0, 1, w - 2, w - 1}
        \/ p[2] \in {0, 1, h - 2, h - 1}}

\* C5: in the canvas saved by any successful run of Generator A, every
\* pixel of the outer 2-pixel frame (so pixel (0,0) too) has the border
\* colour (60,60,60), which is not the background colour, whatever font was
\* selected and wherever the text was drawn.
C5_BorderOnAllEdges ==
    (gen = "A" /\ pc = "done" /\ icon_path \in written) =>
        /\ border_color # background_color
        /\ PixelAt(fs[icon_path].image, 0, 0) = border_color
        /\ \A p \in Frame(128, 128) :
              PixelAt(fs[icon_path].image, p[1], p[2]) = border_color

\* a saved canvas whose text reaches into the frame
C5_Witness ==
    /\ gen = "A" /\ pc = "done" /\ exit = "ok"
    /\ icon_path \in written
    /\ \E p \in Frame(128, 128) :
          CoversText(fs[icon_path].image.ops[1], p[1], p[2])

----------------------------------------------------------------------------
(* C6 *)

CanvasB == (0..sizeB - 1) \X (0..sizeB - 1)
OpaqueDot == Ink("RGBA", dot_color)

\* C6: Generator B, library imported, output directory existing and no
\* library call raising: the run ends with exit status 0 and has written
\* exactly one file, at the fixed target path, from a 24x24 RGBA canvas
\* created fully transparent; every pixel that neither the arc nor the dot
\* covers (the corner (0,0) among them) is saved with alpha 0, and every
\* pixel the dot covers has the dot's colour, also where the arc covers it.
C6_TransparentIconAtTarget ==
    (gen = "B" /\ imported = "ok" /\ dirB0 /\ raised = NoRaise /\ pc = "done") =>
        /\ exit = "ok"
        /\ written = {target_path}
        /\ \A f \in Files \ {target_path} : fs[f] = fs0[f]
        /\ IsPng(target_path, 24, 24)
        /\ LET im == fs[target_path].image
           IN  /\ im.mode = "RGBA"
               /\ im.bg = <<0, 0, 0, 0>>
               /\ Len(im.ops) = 2
               /\ PixelAt(im, 0, 0)[4] = 0
               /\ \A p \in CanvasB :
                     /\ (~Covers(im.ops[1], p[1], p[2])
                           /\ ~Covers(im.ops[2], p[1], p[2]))
                          => PixelAt(im, p[1], p[2])[4] = 0
                     /\ CoversEllipse([box |-> dot_box], p[1], p[2])
                          => PixelAt(im, p[1], p[2]) = OpaqueDot

\* a saved icon in which the dot lies over part of the arc
C6_Witness ==
    /\ gen = "B" /\ pc = "done" /\ exit = "ok"
    /\ target_path \in written
    /\ \E p \in CanvasB :
          /\ CoversArc([box |-> arc_box, width |-> arc_width], p[1], p[2])
          /\ CoversEllipse([box |-> dot_box], p[1], p[2])
          /\ PixelAt(fs[target_path].image, p[1], p[2]) = OpaqueDot

----------------------------------------------------------------------------
(* C7 *)

\* C7: Generator B has no fallback: a success message in the output means
\* the save has completed; and a run that found the output directory
\* missing, or could not import the library, ends with a fault, has created
\* no directory, has written or changed no file and has printed nothing.
C7_NoFallbackInB ==
    gen = "B" =>
        /\ out # <<>> => target_path \in written
        /\ (~dirB0 \/ imported = "failed") =>
              /\ dirB = dirB0
              /\ written = {}
              /\ fs = fs0
              /\ out = <<>>
              /\ pc # "B_print"
              /\ Ended => exit = "fault"

C7_Witness ==
    /\ gen = "B" /\ pc = "done" /\ exit = "fault"
    /\ imported = "ok" /\ ~dirB0
    /\ raised.step = "save"

----------------------------------------------------------------------------
(* C8 *)

\* C8: in a fixed environment, every successful run of a generator after
\* its first successful run leaves the same set of its output files
\* present, with the same content, the same output and the same files
\* written as the first one did, whatever the earlier runs left behind; and
\* no run of one generator changes an output file of the other.
C8_RerunIdempotent ==
    gen # "none" =>
        /\ \A f \in Files \ OutputsOf(gen) : fs[f] = fs0[f]
        /\ (pc = "done" /\ exit = "ok" /\ first[gen].seen
              /\ first[gen].exit = "ok") =>
              /\ Present(gen) = first[gen].present
              /\ [f \in OutputsOf(gen) |-> fs[f]] = first[gen].content
              /\ written = first[gen].written
              /\ out = first[gen].out
              /\ \A f \in written : fs[f].kind \in {"png", "text"}

\* a second successful run, over the output the first one left
C8_Witness ==
    /\ gen = "A" /\ pc = "done" /\ exit = "ok"
    /\ first["A"].seen /\ first["A"].exit = "ok"
    /\ fs0[icon_path].kind = "png"
    /\ fs0[placeholder_path] = Stale
    /\ fs[icon_path].kind = "png"
    /\ runs = 2

----------------------------------------------------------------------------
(* C9 *)

FontOrder == <<"primary", "secondary", "default">>
DrawingPcs == {"A_textbbox", "A_text", "A_rectangle", "A_save", "A_print"}

\* C9: the fonts are tried in the order primary, secondary, default; an
\* attempt is made only if every earlier one failed; the selected font is
\* the first that loaded; a failed primary or secondary attempt, of any
\* exception kind, leads to the next attempt and neither ends the run nor
\* enters the placeholder handler; once a font is selected the run is at a
\* drawing statement with exactly that font (until a later statement
\* raises or the run ends).
C9_FontFallbackChain ==
    gen = "A" =>
        /\ Len(tried) <= 3
        /\ \A i \in 1..Len(tried) :
              /\ tried[i] = FontOrder[i]
              /\ \A j \in 1..(i - 1) : env.fonts[j] # "ok"
        /\ font # "none" =>
              /\ tried # <<>>
              /\ font = tried[Len(tried)]
              /\ env.fonts[Len(tried)] = "ok"
        /\ (font = "none" /\ Len(tried) = 1) => pc = "A_font2"
        /\ (font = "none" /\ Len(tried) = 2) => pc = "A_font3"
        /\ raised.step \notin {"font1", "font2"}
        /\ (font # "none" /\ raised = NoRaise) => pc \in DrawingPcs \cup {"done", "idle"}
        /\ pc \in DrawingPcs => font # "none"
        /\ \A i \in 1..(IF img = NoImg THEN 0 ELSE Len(img.ops)) :
              img.ops[i].kind = "text" => img.ops[i].font = font

\* primary and secondary both failed, one of them with ImportError, and
\* the icon was drawn with the default font
C9_Witness ==
    /\ gen = "A" /\ pc = "done" /\ exit = "ok"
    /\ env.fonts[1] = "ImportError" /\ env.fonts[2] = "OSError"
    /\ font = "default"
    /\ tried = FontOrder
    /\ icon_path \in written
    /\ ~FellBack

----------------------------------------------------------------------------
(* C10 *)

\* C10: Generator A centres the text: drawn at the computed position, the
\* ink of the text has left and right margins to the canvas edges that
\* differ by at most 1 pixel, and top and bottom margins that differ by at
\* most 1 pixel, for every measured bounding box (l, t, r, b).
C10_TextCentred ==
    (gen = "A" /\ pos # NoPos) =>
        LET ink == InkBox(pos, bbox)
            left == ink[1]
            right == sizeA[1] - ink[3]
            top == ink[2]
            bottom == sizeA[2] - ink[4]
        IN  /\ Abs(left - right) <= 1
            /\ Abs(top - bottom) <= 1

====
